---- MODULE Spec2Model ----
(***************************************************************************)
(* Model of the remirror extension-composition core as far as the          *)
(* input-rule aggregation extension (src/unnamed/part_000) exercises it.   *)
(*                                                                         *)
(* The aggregation extension (onInitialize / forEachExtension /            *)
(* afterExtensionLoop) is translated from its source.  The Manager that    *)
(* drives it (construction, sorting, the initialization pass, the Ready    *)
(* and Destroyed states, the error taxonomy) is not part of the source     *)
(* files and is modelled from spec.md sections 3, 4.2 and 7.               *)
(***************************************************************************)
EXTENDS Integers, Sequences, FiniteSets, TLC

VARIABLES
    registered,       \* the extension list handed to the Manager, in registration order
    managerSettings,  \* the Manager-wide settings
    state,            \* Manager lifecycle state
    error,            \* the error surfaced to the Manager's caller, or NoError
    extensions,       \* the Manager's sorted extension order (indices into registered)
    i,                \* position in `extensions` of the extension being initialized
    phase,            \* where the pass is for extension i
    j,                \* position in `extensions` of the next extension to visit
    rules,            \* the aggregator's accumulator (`const rules` of onInitialize)
    plugins,          \* the Manager's ordered plugin list
    commands,         \* the Manager's command map (command name -> owning extension)
    hookLog,          \* every hook / callback invocation of this Manager, in order
    accessed,         \* result of the last Ready-only accessor call
    run,              \* how many Managers have been constructed from `registered`
    prev,             \* what the previous Manager built from the same list exposed
    \* the rendering layer (wysiwyg-menu.tsx)
    editorActive,     \* the commands whose isActive(attrs) is true, as <<name, attrs>> keys
    editorDisabled,   \* the commands whose isEnabled() is false
    selectionActive,  \* bubblePositioner.isActive(params)
    inverse,          \* MenuBar's `inverse` prop
    linkActivated,    \* BubbleMenu's `linkActivated` prop
    menuBar,          \* the buttons MenuBar rendered
    bubbleMenu,       \* what BubbleMenu rendered
    linkInput,        \* the LinkInput instance: mounted, href, wrapperRef, handleClick
    listeners,        \* the mousedown listeners registered on the document
    lastEvent,        \* the last event a handler of the menus ran for
    calls             \* the callbacks and commands that handler called, in order

managerVars == <<registered, managerSettings, state, error, extensions, i, phase, j,
                 rules, plugins, commands, hookLog, accessed, run, prev>>

uiVars == <<editorActive, editorDisabled, selectionActive, inverse, linkActivated,
            menuBar, bubbleMenu, linkInput, listeners, lastEvent, calls>>

vars == <<managerVars, uiVars>>

----------------------------------------------------------------------------
(* Bounds *)

MaxExtensions == 3

MaxManagers == 2

----------------------------------------------------------------------------
(* JavaScript values *)

\* ToBoolean of the values an exclude flag can hold
Truthy(v) == v = "true"

\* `object?.field`: undefined when the object is absent (the empty option)
OptionalChain(opt, field) == IF opt = <<>> THEN "undefined" ELSE opt[1][field]

----------------------------------------------------------------------------
(* Extensions *)

\* priorities: lower runs first
ExtensionPriority == [Default |-> 2, Low |-> 3]

\* The aggregation extension: fixed name, default priority Low, an
\* onInitialize hook, and no createNodeViews of its own.
NodeViewsExtension ==
    [name       |-> "inputRules",
     priority   |-> ExtensionPriority.Low,
     settings   |-> [exclude |-> [inputRules |-> "undefined"]],
     parameter  |-> [createNodeViews |-> "absent", onInitialize |-> TRUE],
     commands   |-> {}]

\* The other extensions a Manager is given: a name, a priority, an optional
\* createNodeViews hook (which returns its rules, or throws) and an exclude flag.
PlainExtension(name, priority, hook, excl) ==
    [name       |-> name,
     priority   |-> priority,
     settings   |-> [exclude |-> [inputRules |-> excl]],
     parameter  |-> [createNodeViews |-> hook, onInitialize |-> FALSE],
     commands   |-> {name}]

HookKinds == {"absent", "returns", "throws"}

ExcludeFlags == {"undefined", "true"}

ExtensionPool ==
    {NodeViewsExtension}
    \cup {PlainExtension("bold", p, h, x) :
            p \in {ExtensionPriority.Default, ExtensionPriority.Low},
            h \in HookKinds, x \in ExcludeFlags}
    \cup {PlainExtension("heading", p, h, x) :
            p \in {ExtensionPriority.Default, ExtensionPriority.Low},
            h \in HookKinds, x \in ExcludeFlags}

SeqsUpTo(S, n) == UNION {[1..k -> S] : k \in 0..n}

ManagerSettingsPool ==
    {[exclude |-> <<>>],
     [exclude |-> <<[inputRules |-> "false"]>>],
     [exclude |-> <<[inputRules |-> "true"]>>]}

\* createNodeViews(parameter, extension): the InputRule[] an extension returns.
\* A rule is identified by its extension's name and its position.
createNodeViews(extension) ==
    IF extension.name = "bold"
    THEN <<[of |-> "bold", n |-> 1], [of |-> "bold", n |-> 2]>>
    ELSE <<[of |-> extension.name, n |-> 1]>>

----------------------------------------------------------------------------
(* Manager helpers (spec.md 4.2) *)

NoError == [type |-> "none", extension |-> "", hook |-> "", visited |-> ""]

NoPrev == [state |-> "none", error |-> NoError, plugins |-> <<>>, commands |-> {}]

N == Len(registered)

\* variant: only neighbours are compared
HasAdjacentDuplicateNames(regs) ==
    \E a \in 1..(Len(regs) - 1) : regs[a].name = regs[a + 1].name

HasDuplicateNames(regs) ==
    \E a, b \in 1..Len(regs) : a # b /\ regs[a].name = regs[b].name

\* variant: the priority is ignored
PrecedesByRegistration(regs, a, b) == a < b

\* a precedes b in (priority ascending, registration index ascending)
Precedes(regs, a, b) ==
    \/ regs[a].priority < regs[b].priority
    \/ regs[a].priority = regs[b].priority /\ a < b

\* the stable sort: the index at position k is the one preceded by k-1 others
SortedOrder(regs) ==
    [k \in 1..Len(regs) |->
        CHOOSE a \in 1..Len(regs) :
            Cardinality({b \in 1..Len(regs) : b # a /\ Precedes(regs, b, a)}) = k - 1]

\* a logged invocation: the hook, the extension whose callback makes or
\* receives it, the extension passed, and the parameter object passed or
\* returned (NoParameter when there is none)
NoParameter == [for |-> "", schema |-> FALSE]

Entry(hook, by, ext) ==
    [hook |-> hook, by |-> by, ext |-> ext, parameter |-> NoParameter]

\* getParameter(extension): the typed parameter object made for that extension
getParameter(extension) == [for |-> extension.name, schema |-> TRUE]

InitializationError(extension, hook, visited) ==
    [type |-> "InitializationError", extension |-> extension, hook |-> hook,
     visited |-> visited]

ConfigurationError ==
    [type |-> "ConfigurationError", extension |-> "", hook |-> "", visited |-> ""]

\* the addPlugins callback handed to onInitialize: appends to the plugin list
addPlugins(pluginList, plugin) == Append(pluginList, plugin)

\* the command map exposed at Ready: every extension's commands, by name
CommandMap(regs) ==
    UNION {{[name |-> c, extension |-> regs[a].name] : c \in regs[a].commands} :
              a \in 1..Len(regs)}

----------------------------------------------------------------------------
(* The aggregation extension (src/unnamed/part_000) *)

\* variant: the accumulator lives outside onInitialize and is never recreated
CarriedRules == rules

\* `const rules: InputRule[] = []`
FreshRules == <<>>

\* variant: the hook is not checked to exist
ShouldSkipIgnoringMissingHook(extension) ==
    \/ Truthy(OptionalChain(managerSettings.exclude, "inputRules"))
    \/ Truthy(extension.settings.exclude.inputRules)

\* variant: the extension's own exclude setting is not consulted
ShouldSkipIgnoringSettings(extension) ==
    \/ Truthy(OptionalChain(managerSettings.exclude, "inputRules"))
    \/ extension.parameter.createNodeViews = "absent"

\* variant: the manager-wide exclude setting is not consulted
ShouldSkipIgnoringManager(extension) ==
    \/ extension.parameter.createNodeViews = "absent"
    \/ Truthy(extension.settings.exclude.inputRules)

\* variant: the exclude setting is read off every extension, not the visited one
ShouldSkipWhenAnyExcludes(extension) ==
    \/ Truthy(OptionalChain(managerSettings.exclude, "inputRules"))
    \/ extension.parameter.createNodeViews = "absent"
    \/ \E a \in 1..N : Truthy(registered[a].settings.exclude.inputRules)

\* the condition of the early return in forEachExtension
ShouldSkip(extension) ==
    \/ Truthy(OptionalChain(managerSettings.exclude, "inputRules"))
    \/ extension.parameter.createNodeViews = "absent"
    \/ Truthy(extension.settings.exclude.inputRules)

\* variant: `rules.unshift(...returned)`
UnshiftRules(rs, returned) == returned \o rs

\* `rules.push(...returned)`
PushRules(rs, returned) == rs \o returned

\* variant: the call is wrapped in a try/catch that drops the exception
HarvestSwallowingThrow(extension, rs) ==
    IF extension.parameter.createNodeViews = "throws"
    THEN [threw |-> FALSE, rules |-> rs]
    ELSE [threw |-> FALSE, rules |-> rs \o createNodeViews(extension)]

\* `const parameter = getParameter(extension); rules.push(...createNodeViews(
\* parameter, extension))`: the hook either throws, which leaves the array as
\* it was, or returns the rules that are pushed
HarvestOutcome(extension, rs) ==
    IF extension.parameter.createNodeViews = "throws"
    THEN [threw |-> TRUE, rules |-> rs]
    ELSE [threw |-> FALSE, rules |-> PushRules(rs, createNodeViews(extension))]

\* variant: getParameter is called before the early return
VisitCallsParameterFirst(by, visited, skip) ==
    <<[Entry("getParameter", by, visited)
          EXCEPT !.parameter = getParameter(registered[visited])]>>
    \o (IF skip THEN <<>>
        ELSE <<[Entry("createNodeViews", by, visited)
                   EXCEPT !.parameter = getParameter(registered[visited])]>>)

\* the calls forEachExtension makes for the visited extension: none when it
\* returns early, else getParameter(extension) and then the extension's
\* createNodeViews(parameter, extension)
VisitCalls(by, visited, skip) ==
    IF skip THEN <<>>
    ELSE LET parameter == getParameter(registered[visited])
         IN  <<[Entry("getParameter", by, visited) EXCEPT !.parameter = parameter],
               [Entry("createNodeViews", by, visited) EXCEPT !.parameter = parameter]>>

\* `inputRules({ rules })`: the one plugin wrapping a rule list
inputRules(rs) == [key |-> "inputRules", rules |-> rs]

\* variant: the plugin is built from an empty list, not from the accumulator
FlushEmptyList(pluginList, rs) ==
    Append(pluginList, [key |-> "inputRules", rules |-> <<>>])

\* variant: one plugin per harvested rule
FlushEachRule(pluginList, rs) ==
    pluginList \o [k \in 1..Len(rs) |-> [key |-> "inputRules", rules |-> <<rs[k]>>]]

\* the plugin list after `addPlugins(inputRules({ rules }))`
FlushRules(pluginList, rs) == addPlugins(pluginList, inputRules(rs))

\* the addPlugins calls that took pluginList to newList, as log entries
AddPluginCalls(pluginList, newList, by) ==
    [k \in 1..(Len(newList) - Len(pluginList)) |-> Entry("addPlugins", by, by)]

Current == extensions[i]

\* onInitialize of the aggregator: a fresh accumulator, and the two callbacks
onInitialize ==
    /\ state = "Initializing" /\ error = NoError
    /\ phase = "onInitialize" /\ i <= N
    /\ registered[Current].parameter.onInitialize
    /\ rules' = FreshRules
    /\ phase' = "forEachExtension"
    /\ j' = 1
    /\ hookLog' = Append(hookLog, Entry("onInitialize", Current, Current))
    /\ UNCHANGED uiVars
    /\ UNCHANGED <<registered, managerSettings, state, error, extensions, i,
                   plugins, commands, accessed, run, prev>>

\* forEachExtension(extension), called by the Manager for the j-th extension
forEachExtension ==
    /\ state = "Initializing" /\ error = NoError
    /\ phase = "forEachExtension" /\ j <= N
    /\ LET visited   == extensions[j]
           extension == registered[visited]
           called    == Append(hookLog, Entry("forEachExtension", Current, visited))
       IN  /\ hookLog' = called \o VisitCalls(Current, visited, ShouldSkip(extension))
           /\ IF ShouldSkip(extension)
              THEN /\ j' = j + 1
                   /\ UNCHANGED <<rules, error>>
              ELSE
                /\ rules' = HarvestOutcome(extension, rules).rules
                /\ IF HarvestOutcome(extension, rules).threw
                   THEN \* the exception reaches the Manager, which aborts the pass
                        /\ error' = InitializationError(registered[Current].name,
                                         "forEachExtension", extension.name)
                        /\ UNCHANGED j
                   ELSE /\ j' = j + 1
                        /\ UNCHANGED error
    /\ UNCHANGED uiVars
    /\ UNCHANGED <<registered, managerSettings, state, extensions, i, phase,
                   plugins, commands, accessed, run, prev>>

\* variant: the plugin is registered from a deferred callback, which runs
\* after the Manager has become Ready
afterExtensionLoopDeferred ==
    \/ /\ state = "Initializing" /\ error = NoError
       /\ phase = "forEachExtension" /\ j = N + 1
       /\ hookLog' = Append(hookLog, Entry("afterExtensionLoop", Current, Current))
       /\ i' = i + 1
       /\ phase' = "onInitialize"
       /\ UNCHANGED uiVars
       /\ UNCHANGED <<registered, managerSettings, state, error, extensions, j,
                      rules, plugins, commands, accessed, run, prev>>
    \/ /\ state = "Ready"
       /\ plugins = <<>>
       /\ \E a \in 1..N : registered[a].parameter.onInitialize
       /\ plugins' = Append(plugins, [key |-> "inputRules", rules |-> rules])
       /\ UNCHANGED uiVars
       /\ UNCHANGED <<registered, managerSettings, state, error, extensions, i,
                      phase, j, rules, commands, hookLog, accessed, run, prev>>

\* afterExtensionLoop(), called by the Manager once the loop is over
afterExtensionLoop ==
    /\ state = "Initializing" /\ error = NoError
    /\ phase = "forEachExtension" /\ j = N + 1
    /\ plugins' = FlushRules(plugins, rules)
    /\ hookLog' = Append(hookLog, Entry("afterExtensionLoop", Current, Current))
                    \o AddPluginCalls(plugins, plugins', Current)
    /\ i' = i + 1
    /\ phase' = "onInitialize"
    /\ UNCHANGED uiVars
    /\ UNCHANGED <<registered, managerSettings, state, error, extensions, j,
                   rules, commands, accessed, run, prev>>

----------------------------------------------------------------------------
(* The Manager (spec.md 4.2, 7) *)

\* the rendering layer before anything is rendered
NotRendered ==
    /\ editorActive = {}
    /\ editorDisabled = {}
    /\ selectionActive = FALSE
    /\ inverse = "undefined"
    /\ linkActivated = FALSE
    /\ menuBar = <<>>
    /\ bubbleMenu = [isActive |-> FALSE, content |-> "none", buttons |-> <<>>,
                     canRemove |-> FALSE]
    /\ linkInput = [mounted |-> FALSE, href |-> "", wrapperRef |-> "null", handleClick |-> 0]
    /\ listeners = {}
    /\ lastEvent = "none"
    /\ calls = <<>>

Init ==
    /\ NotRendered
    /\ registered \in SeqsUpTo(ExtensionPool, MaxExtensions)
    /\ managerSettings \in ManagerSettingsPool
    /\ state = "Uninitialized"
    /\ error = NoError
    /\ extensions = <<>>
    /\ i = 0
    /\ phase = "idle"
    /\ j = 0
    /\ rules = <<>>
    /\ plugins = <<>>
    /\ commands = {}
    /\ hookLog = <<>>
    /\ accessed = "none"
    /\ run = 1
    /\ prev = NoPrev

\* construction: duplicate names are a ConfigurationError; otherwise the
\* sort order is computed and the initialization pass begins
Construct ==
    /\ state = "Uninitialized" /\ error = NoError
    /\ IF HasDuplicateNames(registered)
       THEN /\ error' = ConfigurationError
            /\ UNCHANGED <<state, extensions, i, phase>>
       ELSE /\ state' = "Initializing"
            /\ extensions' = SortedOrder(registered)
            /\ i' = 1
            /\ phase' = "onInitialize"
            /\ UNCHANGED error
    /\ UNCHANGED uiVars
    /\ UNCHANGED <<registered, managerSettings, j, rules, plugins, commands,
                   hookLog, accessed, run, prev>>

\* an extension without an onInitialize hook: the pass moves on
NoOnInitialize ==
    /\ state = "Initializing" /\ error = NoError
    /\ phase = "onInitialize" /\ i <= N
    /\ ~ registered[Current].parameter.onInitialize
    /\ i' = i + 1
    /\ UNCHANGED uiVars
    /\ UNCHANGED <<registered, managerSettings, state, error, extensions, phase,
                   j, rules, plugins, commands, hookLog, accessed, run, prev>>

\* Initializing -> Ready: the accumulators are frozen and exposed
BecomeReady ==
    /\ state = "Initializing" /\ error = NoError
    /\ phase = "onInitialize" /\ i = N + 1
    /\ state' = "Ready"
    /\ phase' = "idle"
    /\ commands' = CommandMap(registered)
    /\ UNCHANGED uiVars
    /\ UNCHANGED <<registered, managerSettings, error, extensions, i, j, rules,
                   plugins, hookLog, accessed, run, prev>>

\* Ready -> Destroyed
Destroy ==
    /\ state = "Ready"
    /\ state' = "Destroyed"
    /\ UNCHANGED uiVars
    /\ UNCHANGED <<registered, managerSettings, error, extensions, i, phase, j,
                   rules, plugins, commands, hookLog, accessed, run, prev>>

Settled == state \in {"Ready", "Destroyed"} \/ error # NoError

\* variant: the accessor only checks that initialization has completed
AccessResultOnceInitialized(st) ==
    IF st \in {"Ready", "Destroyed"} THEN "plugins" ELSE "LifecycleError"

\* what a Ready-only accessor gives in lifecycle state st
AccessResult(st) == IF st = "Ready" THEN "plugins" ELSE "LifecycleError"

\* a Ready-only accessor (the plugin list), called once the constructor has
\* returned or thrown
GetPlugins ==
    /\ Settled
    /\ accessed' = AccessResult(state)
    /\ UNCHANGED uiVars
    /\ UNCHANGED <<registered, managerSettings, state, error, extensions, i,
                   phase, j, rules, plugins, commands, hookLog, run, prev>>

\* a second Manager constructed from the same extension list and settings
NewManager ==
    /\ Settled
    /\ run < MaxManagers
    /\ prev' = [state |-> state, error |-> error, plugins |-> plugins,
                commands |-> commands]
    /\ run' = run + 1
    /\ state' = "Uninitialized"
    /\ error' = NoError
    /\ extensions' = <<>>
    /\ i' = 0
    /\ phase' = "idle"
    /\ j' = 0
    /\ plugins' = <<>>
    /\ commands' = {}
    /\ hookLog' = <<>>
    /\ accessed' = "none"
    /\ UNCHANGED uiVars
    /\ UNCHANGED <<registered, managerSettings, rules>>

Next ==
    \/ Construct
    \/ NoOnInitialize
    \/ onInitialize
    \/ forEachExtension
    \/ afterExtensionLoop
    \/ BecomeReady
    \/ Destroy
    \/ GetPlugins
    \/ NewManager

Spec == Init /\ [][Next]_vars

----------------------------------------------------------------------------
(* The menus (src/@remirror/editor-wysiwyg/src/components/wysiwyg-menu.tsx) *)

\* how many commands may be active or disabled at once in the editor states
\* explored
MaxFlags == 1

\* how many distinct handleClick closures are told apart
MaxHandlers == 2

Item(name, attrs) == [name |-> name, attrs |-> attrs]

menuItems ==
    <<Item("bold", "undefined"), Item("italic", "undefined"),
      Item("underline", "undefined"), Item("strike", "undefined"),
      Item("toggleHeading", "level 1"), Item("toggleHeading", "level 2"),
      Item("toggleHeading", "level 3"), Item("undo", "undefined"),
      Item("redo", "undefined"), Item("toggleBulletList", "undefined"),
      Item("toggleOrderedList", "undefined"), Item("blockquote", "undefined"),
      Item("toggleCodeBlock", "undefined"), Item("horizontalRule", "undefined")>>

bubbleMenuItems ==
    <<Item("bold", "undefined"), Item("italic", "undefined"),
      Item("underline", "undefined")>>

Range(seq) == {seq[k] : k \in 1..Len(seq)}

\* every <<command, attrs>> whose isActive the menus ask for
ActiveKeys ==
    {<<item.name, item.attrs>> : item \in Range(menuItems)}
    \cup {<<"updateLink", "undefined">>, <<"removeLink", "undefined">>}

\* every command whose isEnabled the menus ask for
EnabledNames == {item.name : item \in Range(menuItems)} \cup {"updateLink"}

\* actions[name].isActive(attrs) and actions[name].isEnabled() in an editor state
isActive(active, name, attrs) == <<name, attrs>> \in active

isEnabled(disabled, name) == name \notin disabled

\* getButtonState(active, inverse = false)
getButtonState(active, inv) ==
    LET inverseArg == IF inv = "undefined" THEN "false" ELSE inv
    IN  IF active
        THEN (IF inverseArg = "true" THEN "active-inverse" ELSE "active-default")
        ELSE (IF inverseArg = "true" THEN "inverse" ELSE "default")

\* <MenuItem state disabled onClick />: `disabled = false` when not passed
MenuItem(command, attrs, buttonState, disabledProp, onClick) ==
    [command  |-> command,
     attrs    |-> attrs,
     state    |-> buttonState,
     disabled |-> IF disabledProp = "undefined" THEN FALSE ELSE disabledProp = "true",
     onClick  |-> onClick]

Bool(b) == IF b THEN "true" ELSE "false"

\* the buttons of <MenuBar inverse activateLink />
MenuBar(active, disabled, inv) ==
    [k \in 1..Len(menuItems) |->
        MenuItem(menuItems[k].name, menuItems[k].attrs,
                 getButtonState(isActive(active, menuItems[k].name, menuItems[k].attrs), inv),
                 Bool(~ isEnabled(disabled, menuItems[k].name)),
                 "runAction")]
    \o <<MenuItem("updateLink", "undefined",
                  getButtonState(isActive(active, "updateLink", "undefined"), inv),
                  Bool(~ isEnabled(disabled, "updateLink")),
                  "activateLink")>>

\* variant: `bubblePositioner.isActive(params) || (linkActivated && !codeBlock)`
PositionerIsActiveMisgrouped(active, selection, link) ==
    selection \/ (link /\ ~ isActive(active, "toggleCodeBlock", "undefined"))

\* the isActive given to getPositionerProps
PositionerIsActive(active, selection, link) ==
    (selection \/ link) /\ ~ isActive(active, "toggleCodeBlock", "undefined")

\* canRemove()
canRemove(active) == isActive(active, "removeLink", "undefined")

\* what <BubbleMenu linkActivated deactivateLink activateLink /> renders: the
\* positioner's isActive, and either the LinkInput (with its remove button
\* when canRemove()) or the buttons
BubbleMenu(active, disabled, selection, link) ==
    [isActive  |-> PositionerIsActive(active, selection, link),
     content   |-> IF link THEN "LinkInput" ELSE "BubbleContent",
     canRemove |-> link /\ canRemove(active),
     buttons   |->
        IF link THEN <<>>
        ELSE [k \in 1..Len(bubbleMenuItems) |->
                MenuItem(bubbleMenuItems[k].name, bubbleMenuItems[k].attrs,
                         getButtonState(isActive(active, bubbleMenuItems[k].name,
                                                 bubbleMenuItems[k].attrs), "true"),
                         Bool(~ isEnabled(disabled, bubbleMenuItems[k].name)),
                         "runAction")]
             \o <<MenuItem("updateLink", "undefined",
                           getButtonState(isActive(active, "updateLink", "undefined"), "true"),
                           "undefined",
                           "activateLink")>>]

\* a call a handler makes: a prop callback or a command, with its argument
Call(fn, arg) == [fn |-> fn, arg |-> arg]

\* variant: the link is deactivated before it is updated
submitLinkClosingFirst(href) ==
    <<Call("deactivateLink", ""), Call("updateLink", href)>>

\* submitLink
submitLink(href) == <<Call("updateLink", href), Call("deactivateLink", "")>>

\* onKeyPress(event)
onKeyPress(key, href) ==
    (IF key = "esc" THEN <<Call("deactivateLink", "")>> ELSE <<>>)
    \o (IF key = "enter" THEN submitLink(href) ELSE <<>>)

\* onClickRemoveLink(event)
onClickRemoveLink == <<Call("removeLink", ""), Call("deactivateLink", "")>>

\* handleClick(event), for the wrapper ref and the event's target
handleClick(wrapperRef, target) ==
    IF wrapperRef = "null" \/ target = "inside"
    THEN <<>>
    ELSE <<Call("deactivateLink", "")>>

\* the effect: document.addEventListener('mousedown', handleClick, false)
EffectRun(registeredListeners, handler) == registeredListeners \cup {handler}

\* variant: the effect returns no cleanup
EffectCleanupMissing(registeredListeners, handler) == registeredListeners

\* its cleanup: document.removeEventListener('mousedown', handleClick, false)
EffectCleanup(registeredListeners, handler) == registeredListeners \ {handler}

Unmounted == [mounted |-> FALSE, href |-> "", wrapperRef |-> "null", handleClick |-> 0]

\* every render makes a new handleClick closure, one not yet registered
FreshHandlers(registeredListeners) == (1..MaxHandlers) \ registeredListeners

NextHandler(registeredListeners) ==
    CHOOSE handler \in FreshHandlers(registeredListeners) :
        \A other \in FreshHandlers(registeredListeners) : handler <= other

\* the owner of the menus: activateLink / deactivateLink set linkActivated
AfterCalls(link, made) ==
    IF \E k \in 1..Len(made) : made[k].fn = "deactivateLink" THEN FALSE
    ELSE IF \E k \in 1..Len(made) : made[k].fn = "activateLink" THEN TRUE
    ELSE link

SubsetsUpTo(S, n) ==
    LET RECURSIVE upTo(_)
        upTo(m) == IF m = 0 THEN {{}}
                   ELSE upTo(m - 1) \cup {t \cup {x} : t \in upTo(m - 1), x \in S}
    IN  upTo(n)

\* the editor states explored: at most MaxFlags commands active or disabled
WithinFlags(active, disabled) ==
    Cardinality(active) + Cardinality(disabled) <= MaxFlags

EditorStates ==
    {pair \in SubsetsUpTo(ActiveKeys, MaxFlags) \X SubsetsUpTo(EnabledNames, MaxFlags) :
        WithinFlags(pair[1], pair[2])}

\* React commits the render that follows a change: both menus are rendered
\* from the new editor state and props; LinkInput mounts when linkActivated
\* becomes true (fresh state, the ref attached or not, the effect run),
\* unmounts when it becomes false (the cleanup run), and when it renders again
\* the previous effect is cleaned up and the new one run.  MenuBar reads only
\* the editor state and `inverse`: with both unchanged its render yields the
\* buttons it yielded before.
Commit(active, disabled, selection, link, href, rerender, ref) ==
    /\ editorActive' = active
    /\ editorDisabled' = disabled
    /\ selectionActive' = selection
    /\ linkActivated' = link
    /\ menuBar' = IF active = editorActive /\ disabled = editorDisabled
                  THEN menuBar
                  ELSE MenuBar(active, disabled, inverse)
    /\ bubbleMenu' = BubbleMenu(active, disabled, selection, link)
    /\ IF link /\ ~ linkInput.mounted
       THEN /\ FreshHandlers(listeners) # {}
            /\ linkInput' = [mounted |-> TRUE, href |-> "", wrapperRef |-> ref,
                             handleClick |-> NextHandler(listeners)]
            /\ listeners' = EffectRun(listeners, NextHandler(listeners))
       ELSE IF ~ link /\ linkInput.mounted
       THEN /\ linkInput' = Unmounted
            /\ listeners' = EffectCleanup(listeners, linkInput.handleClick)
       ELSE IF linkInput.mounted /\ rerender
       THEN /\ FreshHandlers(listeners) # {}
            /\ linkInput' = [linkInput EXCEPT !.href = href,
                                !.handleClick = NextHandler(listeners)]
            /\ listeners' = EffectRun(EffectCleanup(listeners, linkInput.handleClick),
                                      NextHandler(listeners))
       ELSE /\ linkInput' = linkInput
            /\ listeners' = listeners
    /\ UNCHANGED inverse
    /\ UNCHANGED managerVars

\* whether the wrapper ref is attached is decided when LinkInput mounts
RefChoices(link) ==
    IF link /\ ~ linkInput.mounted THEN {"null", "wrapper"} ELSE {linkInput.wrapperRef}

\* a handler of the menus ran for `event` and made the calls `made`
Handle(event, made) ==
    /\ lastEvent' = event
    /\ calls' = made
    /\ \E ref \in RefChoices(AfterCalls(linkActivated, made)) :
          Commit(editorActive, editorDisabled, selectionActive,
                 AfterCalls(linkActivated, made), linkInput.href, FALSE, ref)

\* values typed into the input
Hrefs == {"", "https://a.example"}

Keys == {"esc", "enter", "other"}

Toggle(S, x) == IF x \in S THEN S \ {x} ELSE S \cup {x}

\* the calls a button's onClick makes: runAction(actions[name], attrs) calls
\* the command, the link buttons call activateLink
OnClick(button) ==
    IF button.onClick = "runAction"
    THEN <<Call(button.command, button.attrs)>>
    ELSE <<Call("activateLink", "")>>

\* the editor state changes (a transaction): every useRemirror consumer
\* renders again
EditorUpdate ==
    /\ \/ \E key \in ActiveKeys :
             /\ WithinFlags(Toggle(editorActive, key), editorDisabled)
             /\ Commit(Toggle(editorActive, key), editorDisabled, selectionActive,
                       linkActivated, linkInput.href, TRUE, linkInput.wrapperRef)
       \/ \E name \in EnabledNames :
             /\ WithinFlags(editorActive, Toggle(editorDisabled, name))
             /\ Commit(editorActive, Toggle(editorDisabled, name), selectionActive,
                       linkActivated, linkInput.href, TRUE, linkInput.wrapperRef)
       \/ Commit(editorActive, editorDisabled, ~ selectionActive,
                 linkActivated, linkInput.href, TRUE, linkInput.wrapperRef)
    /\ lastEvent' = "update"
    /\ calls' = <<>>

\* a button of the MenuBar is clicked; a disabled button takes no click
ClickMenuBar ==
    \E k \in 1..Len(menuBar) :
        /\ ~ menuBar[k].disabled
        /\ Handle("click", OnClick(menuBar[k]))

\* a button of the BubbleMenu is clicked
ClickBubbleMenu ==
    \E k \in 1..Len(bubbleMenu.buttons) :
        /\ ~ bubbleMenu.buttons[k].disabled
        /\ Handle("click", OnClick(bubbleMenu.buttons[k]))

\* onChange: setHref(event.target.value); the same value renders nothing
Change ==
    /\ linkInput.mounted
    /\ \E value \in Hrefs :
          /\ lastEvent' = "change"
          /\ calls' = <<>>
          /\ Commit(editorActive, editorDisabled, selectionActive, linkActivated,
                    value, value # linkInput.href, linkInput.wrapperRef)

KeyPress ==
    /\ linkInput.mounted
    /\ \E key \in Keys : Handle(key, onKeyPress(key, linkInput.href))

\* the input's onSubmit
Submit ==
    /\ linkInput.mounted
    /\ Handle("submit", submitLink(linkInput.href))

\* the remove button, rendered only when canRemove()
ClickRemoveLink ==
    /\ linkInput.mounted
    /\ bubbleMenu.canRemove
    /\ Handle("remove", onClickRemoveLink)

\* a mousedown on the document: every registered listener runs
Mousedown ==
    \E target \in {"inside", "outside"} :
        /\ target = "inside" => linkInput.mounted
        /\ Handle(IF target = "inside" THEN "mousedown-inside" ELSE "mousedown-outside",
                  IF handleClick(linkInput.wrapperRef, target) = <<>>
                  THEN <<>>
                  ELSE [k \in 1..Cardinality(listeners) |->
                          handleClick(linkInput.wrapperRef, target)[1]])

\* the menus are rendered for the first time, no manager in play
MenuInit ==
    /\ registered = <<>>
    /\ managerSettings = [exclude |-> <<>>]
    /\ state = "Uninitialized"
    /\ error = NoError
    /\ extensions = <<>>
    /\ i = 0
    /\ phase = "idle"
    /\ j = 0
    /\ rules = <<>>
    /\ plugins = <<>>
    /\ commands = {}
    /\ hookLog = <<>>
    /\ accessed = "none"
    /\ run = 1
    /\ prev = NoPrev
    /\ \E initial \in EditorStates :
          /\ editorActive = initial[1]
          /\ editorDisabled = initial[2]
    /\ selectionActive \in BOOLEAN
    /\ inverse \in {"undefined", "false", "true"}
    /\ linkActivated = FALSE
    /\ menuBar = MenuBar(editorActive, editorDisabled, inverse)
    /\ bubbleMenu = BubbleMenu(editorActive, editorDisabled, selectionActive, FALSE)
    /\ linkInput = Unmounted
    /\ listeners = {}
    /\ lastEvent = "none"
    /\ calls = <<>>

MenuNext ==
    \/ EditorUpdate
    \/ ClickMenuBar
    \/ ClickBubbleMenu
    \/ Change
    \/ KeyPress
    \/ Submit
    \/ ClickRemoveLink
    \/ Mousedown

MenuSpec == MenuInit /\ [][MenuNext]_vars

----------------------------------------------------------------------------
(* Vocabulary of the properties *)

\* (a) the manager-wide exclude map disables inputRules
ManagerExcludesInputRules ==
    /\ managerSettings.exclude # <<>>
    /\ managerSettings.exclude[1].inputRules = "true"

\* (b) the extension's own settings exclude inputRules
ExtensionExcludesInputRules(e) == e.settings.exclude.inputRules = "true"

\* (c) the extension implements the createNodeViews hook
ImplementsCreateNodeViews(e) == e.parameter.createNodeViews # "absent"

Skipped(e) ==
    \/ ManagerExcludesInputRules
    \/ ExtensionExcludesInputRules(e)
    \/ ~ ImplementsCreateNodeViews(e)

Aggregators == {a \in 1..N : registered[a].parameter.onInitialize}

\* the log entries a step adds
NewEntries == SubSeq(hookLog', Len(hookLog) + 1, Len(hookLog'))

Calls(log, hook) == SelectSeq(log, LAMBDA entry : entry.hook = hook)

\* the extensions requester `a` has visited so far, in visiting order
Visited(a) ==
    LET visits == SelectSeq(hookLog,
                      LAMBDA entry : entry.hook = "forEachExtension" /\ entry.by = a)
    IN  [k \in 1..Len(visits) |-> visits[k].ext]

\* the rules of the non-skipped extensions among `exts`, concatenated in order
RECURSIVE Contributions(_, _)
Contributions(regs, exts) ==
    IF exts = <<>> THEN <<>>
    ELSE (IF Skipped(regs[Head(exts)]) THEN <<>> ELSE createNodeViews(regs[Head(exts)]))
            \o Contributions(regs, Tail(exts))

PluginRules == IF plugins = <<>> THEN <<>> ELSE plugins[1].rules

----------------------------------------------------------------------------
(* C1 *)

\* C1: every visit of forEachExtension invokes the visited extension's
\* createNodeViews exactly when none of (a) manager-wide exclude, (b) the
\* extension's own exclude, (c) hook not implemented holds; a skipped visit
\* leaves the accumulated rules unchanged, and a hook that returns has its
\* rules appended to them.
C1_SkipRule ==
    [][ (NewEntries # <<>> /\ NewEntries[1].hook = "forEachExtension") =>
            LET e == registered[NewEntries[1].ext]
                invoked == \E k \in 1..Len(NewEntries) :
                              /\ NewEntries[k].hook = "createNodeViews"
                              /\ NewEntries[k].ext = NewEntries[1].ext
            IN  /\ invoked <=> ~ Skipped(e)
                /\ Skipped(e) => rules' = rules
                /\ (invoked /\ e.parameter.createNodeViews = "returns")
                      => rules' = rules \o createNodeViews(e)
      ]_vars

\* a pass in which one extension was harvested and another, which implements
\* the hook but excludes inputRules in its own settings, was visited and skipped
C1_Witness ==
    /\ rules # <<>>
    /\ \E k \in 1..Len(hookLog) :
          /\ hookLog[k].hook = "forEachExtension"
          /\ ExtensionExcludesInputRules(registered[hookLog[k].ext])
          /\ ImplementsCreateNodeViews(registered[hookLog[k].ext])
    /\ \E k \in 1..Len(hookLog) :
          /\ hookLog[k].hook = "forEachExtension"
          /\ ~ ImplementsCreateNodeViews(registered[hookLog[k].ext])

----------------------------------------------------------------------------
(* C2 *)

\* C2: once the Manager is Ready, the aggregator's plugin holds exactly the
\* rules returned by the non-skipped extensions, concatenated in the order the
\* aggregator visited them, each extension's rules in their returned order.
C2_RulesInVisitOrder ==
    \A a \in Aggregators :
        state = "Ready" =>
            /\ plugins # <<>>
            /\ PluginRules = Contributions(registered, Visited(a))

\* [Bold, Heading, InputRulesAggregator]: Bold's two rules, then Heading's
C2_Witness ==
    /\ state = "Ready"
    /\ N = 3
    /\ registered[1].name = "bold" /\ registered[2].name = "heading"
    /\ registered[3].name = "inputRules"
    /\ registered[1].priority = ExtensionPriority.Default
    /\ registered[2].priority = ExtensionPriority.Default
    /\ PluginRules = <<[of |-> "bold", n |-> 1], [of |-> "bold", n |-> 2],
                       [of |-> "heading", n |-> 1]>>

----------------------------------------------------------------------------
(* C3 *)

\* C3: the aggregator never registers more than one plugin, and in a
\* complete pass it has called addPlugins exactly once and registered exactly
\* one plugin, however many extensions contributed rules.
C3_ExactlyOnePlugin ==
    /\ Len(plugins) <= 1
    /\ Len(Calls(hookLog, "addPlugins")) = Len(plugins)
    /\ (state = "Ready" /\ Aggregators # {}) =>
          /\ Len(plugins) = 1
          /\ plugins[1].key = "inputRules"

\* a complete pass in which two extensions contributed rules
C3_Witness ==
    /\ state = "Ready"
    /\ Len(Calls(hookLog, "createNodeViews")) = 2
    /\ Len(plugins) = 1
    /\ Len(plugins[1].rules) = 3

----------------------------------------------------------------------------
(* C4 *)

\* C4: with inputRules excluded manager-wide, no createNodeViews hook is ever
\* invoked, and the plugin registered at the end of the pass is present and
\* holds zero rules.
C4_ManagerWideExclude ==
    ManagerExcludesInputRules =>
        /\ Calls(hookLog, "createNodeViews") = <<>>
        /\ rules = <<>>
        /\ (state = "Ready" /\ Aggregators # {}) => plugins = <<inputRules(<<>>)>>

\* a complete pass, excluded manager-wide, over an extension that implements
\* the hook and does not exclude itself
C4_Witness ==
    /\ ManagerExcludesInputRules
    /\ state = "Ready"
    /\ plugins = <<inputRules(<<>>)>>
    /\ \E a \in 1..N :
          /\ registered[a].parameter.createNodeViews = "returns"
          /\ ~ ExtensionExcludesInputRules(registered[a])

----------------------------------------------------------------------------
(* C5 *)

\* the registered list with extension x contributing no rules
WithoutRules(regs, x) == [regs EXCEPT ![x].parameter.createNodeViews = "absent"]

\* C5: when extension X excludes inputRules in its own settings, a complete
\* pass leaves none of X's rules in the aggregator's plugin, the plugin holds
\* what it would hold had X no rules to contribute (the other extensions'
\* rules, in the same order), and X's commands are in the command map.
C5_OnlyOwnContributionDropped ==
    \A a \in Aggregators : \A x \in 1..N :
        (state = "Ready" /\ ExtensionExcludesInputRules(registered[x])) =>
            /\ \A k \in 1..Len(PluginRules) : PluginRules[k].of # registered[x].name
            /\ plugins # <<>>
            /\ PluginRules = Contributions(WithoutRules(registered, x), Visited(a))
            /\ \A c \in registered[x].commands :
                  [name |-> c, extension |-> registered[x].name] \in commands

\* Bold implements the hook but excludes inputRules; Heading's rule is harvested
\* and Bold's command is present
C5_Witness ==
    /\ state = "Ready"
    /\ \E x, y \in 1..N :
          /\ registered[x].name = "bold"
          /\ ExtensionExcludesInputRules(registered[x])
          /\ registered[x].parameter.createNodeViews = "returns"
          /\ registered[y].name = "heading"
          /\ ~ Skipped(registered[y])
    /\ PluginRules = <<[of |-> "heading", n |-> 1]>>
    /\ [name |-> "bold", extension |-> "bold"] \in commands

----------------------------------------------------------------------------
(* C6 *)

\* C6: a second Manager constructed from the same extension list and settings
\* ends as the first did: Ready with an identical plugin list (rule order
\* included) and command map, or failed with the same error.
C6_SameListSameResult ==
    run > 1 =>
        /\ state = "Ready" =>
              /\ prev.state \in {"Ready", "Destroyed"}
              /\ plugins = prev.plugins
              /\ commands = prev.commands
        /\ error # NoError => error = prev.error

\* the second Manager is Ready and its plugin holds harvested rules
C6_Witness ==
    /\ run = 2
    /\ state = "Ready"
    /\ Len(PluginRules) = 3
    /\ plugins = prev.plugins

----------------------------------------------------------------------------
(* C7 *)

\* b has not been visited within the first k visits
NotAmong(visits, k, b) == \A m \in 1..k : visits[m] # b

\* C7: every requesting extension visits the extensions in the order of the
\* sort by (priority ascending, registration index ascending): each visited
\* extension comes, in that order, before every extension not yet visited at
\* that point, and a complete loop has visited all N extensions.
C7_VisitOrderIsSorted ==
    \A a \in Aggregators :
        /\ \A k \in 1..Len(Visited(a)) : \A b \in 1..N :
              NotAmong(Visited(a), k, b) =>
                  \/ registered[Visited(a)[k]].priority < registered[b].priority
                  \/ /\ registered[Visited(a)[k]].priority = registered[b].priority
                     /\ Visited(a)[k] < b
        /\ (\E k \in 1..Len(hookLog) : hookLog[k] = Entry("afterExtensionLoop", a, a))
              => Len(Visited(a)) = N

\* a complete loop whose visiting order differs from the registration order:
\* the aggregator (Low) was registered first, and a Low extension registered
\* before a Default one
C7_Witness ==
    /\ N = 3
    /\ registered[1].name = "inputRules"
    /\ registered[2].priority = ExtensionPriority.Low
    /\ registered[3].priority = ExtensionPriority.Default
    /\ Visited(1) = <<3, 1, 2>>

----------------------------------------------------------------------------
(* C8 *)

\* two registered extensions share a name
SharesAName == \E a, b \in 1..N : a < b /\ registered[a].name = registered[b].name

\* C8: a Manager given two extensions of the same name fails construction
\* with ConfigurationError: it never leaves Uninitialized, its first step
\* surfaces the error, and no hook has been invoked and no plugin added.
C8_DuplicateNameFails ==
    /\ [](SharesAName =>
            /\ state = "Uninitialized"
            /\ error \in {NoError, ConfigurationError}
            /\ hookLog = <<>>
            /\ plugins = <<>>)
    /\ [](error = ConfigurationError => SharesAName)
    /\ [][(SharesAName /\ error = NoError /\ run' = run /\ accessed' = accessed)
            => error' = ConfigurationError]_vars

\* the duplicate is not adjacent: [bold, heading, bold]
C8_Witness ==
    /\ N = 3
    /\ registered[1].name = "bold" /\ registered[2].name = "heading"
    /\ registered[3].name = "bold"
    /\ error = ConfigurationError
    /\ accessed = "LifecycleError"

----------------------------------------------------------------------------
(* C9 *)

\* the createNodeViews calls made on an extension whose hook throws
ThrowingCalls ==
    SelectSeq(hookLog, LAMBDA entry :
        /\ entry.hook = "createNodeViews"
        /\ registered[entry.ext].parameter.createNodeViews = "throws")

\* C9: once a createNodeViews hook has thrown inside the aggregator's
\* forEachExtension, the Manager has failed with an InitializationError that
\* names the throwing extension, it is not Ready, afterExtensionLoop has not
\* run, so no plugin was registered and no command map frozen, and the
\* Ready-only accessor has only ever failed with LifecycleError.
C9_ThrowAbortsInitialization ==
    /\ ThrowingCalls # <<>> =>
          /\ error.type = "InitializationError"
          /\ error.visited = registered[ThrowingCalls[1].ext].name
          /\ error.extension = registered[ThrowingCalls[1].by].name
          /\ error.hook = "forEachExtension"
          /\ state = "Initializing"
          /\ Calls(hookLog, "afterExtensionLoop") = <<>>
          /\ plugins = <<>>
          /\ commands = {}
          /\ accessed \in {"none", "LifecycleError"}
    /\ error.type = "InitializationError" => Len(ThrowingCalls) = 1

\* Heading's hook threw after Bold's rules had been accumulated, and the
\* accessor was then called
C9_Witness ==
    /\ error.type = "InitializationError"
    /\ error.visited = "heading"
    /\ rules = <<[of |-> "bold", n |-> 1], [of |-> "bold", n |-> 2]>>
    /\ accessed = "LifecycleError"

----------------------------------------------------------------------------
(* C10 *)

LifecycleSteps ==
    {<<"Uninitialized", "Initializing">>, <<"Initializing", "Ready">>,
     <<"Ready", "Destroyed">>}

\* C10: a Manager's state only moves Uninitialized -> Initializing -> Ready
\* -> Destroyed; a pass calls each aggregator's onInitialize and
\* afterExtensionLoop once; once Ready the plugin list, the command map and
\* the hook log never change; and the plugin list changes only in a step of
\* afterExtensionLoop taken while Initializing.
C10_LifecycleAndFrozenAccumulators ==
    /\ [](\A a \in Aggregators :
            /\ Len(SelectSeq(hookLog, LAMBDA entry : entry = Entry("onInitialize", a, a))) <= 1
            /\ state \in {"Ready", "Destroyed"} =>
                  /\ Len(SelectSeq(hookLog, LAMBDA entry : entry = Entry("onInitialize", a, a))) = 1
                  /\ Len(SelectSeq(hookLog, LAMBDA entry : entry = Entry("afterExtensionLoop", a, a))) = 1)
    /\ [][run' = run =>
            /\ state' # state => <<state, state'>> \in LifecycleSteps
            /\ state \in {"Ready", "Destroyed"} =>
                  /\ plugins' = plugins
                  /\ commands' = commands
                  /\ hookLog' = hookLog
            /\ (plugins' # plugins \/ Calls(NewEntries, "addPlugins") # <<>>) =>
                  /\ state = "Initializing" /\ state' = "Initializing"
                  /\ NewEntries # <<>>
                  /\ NewEntries[1].hook = "afterExtensionLoop"
         ]_vars

\* a Manager that went through the whole lifecycle with a registered plugin
C10_Witness ==
    /\ state = "Destroyed"
    /\ Len(plugins) = 1
    /\ Len(PluginRules) = 3
    /\ commands # {}
    /\ accessed = "LifecycleError"

----------------------------------------------------------------------------
(* C11 *)

\* C11: once a Manager is Destroyed it stays Destroyed, no hook or callback
\* is invoked on it again, its accumulators stay as they were, and a call of
\* its accessor can only give LifecycleError.
C11_DestroyedIsTerminal ==
    [][(state = "Destroyed" /\ run' = run) =>
          /\ state' = "Destroyed"
          /\ hookLog' = hookLog
          /\ plugins' = plugins /\ commands' = commands /\ rules' = rules
          /\ accessed' # accessed => accessed' = "LifecycleError"
      ]_vars

\* a Manager whose accessor succeeded while Ready and failed once Destroyed,
\* after a pass in which hooks ran
C11_Witness ==
    /\ state = "Destroyed"
    /\ accessed = "LifecycleError"
    /\ Calls(hookLog, "createNodeViews") # <<>>
    /\ run = 1

----------------------------------------------------------------------------
(* C12 *)

\* the positions of the log at which aggregator a's afterExtensionLoop ran
AfterLoopAt(a) ==
    {k \in 1..Len(hookLog) : hookLog[k] = Entry("afterExtensionLoop", a, a)}

\* C12: an aggregator's afterExtensionLoop runs at most once in a pass and
\* exactly once in a complete one; when it runs, forEachExtension has already
\* been called for every registered extension and is not called afterwards;
\* the plugin it registers holds every rule of every non-skipped extension,
\* and the accumulator never differs from what the plugin holds.
C12_FlushAfterWholeLoop ==
    \A a \in Aggregators :
        /\ Cardinality(AfterLoopAt(a)) <= 1
        /\ state \in {"Ready", "Destroyed"} => Cardinality(AfterLoopAt(a)) = 1
        /\ plugins # <<>> => AfterLoopAt(a) # {}
        /\ \A k \in AfterLoopAt(a) :
              /\ \A b \in 1..N : \E m \in 1..(k - 1) :
                    hookLog[m].hook = "forEachExtension" /\ hookLog[m].ext = b
              /\ \A m \in (k + 1)..Len(hookLog) :
                    hookLog[m].hook \notin
                        {"forEachExtension", "getParameter", "createNodeViews"}
              /\ plugins # <<>>
              /\ PluginRules = rules
              /\ \A b \in 1..N : ~ Skipped(registered[b]) =>
                    \A n \in 1..Len(createNodeViews(registered[b])) :
                        \E q \in 1..Len(PluginRules) :
                            PluginRules[q] = createNodeViews(registered[b])[n]

\* the aggregator, registered first, visited three extensions (itself
\* included) and then flushed the one harvested rule
C12_Witness ==
    /\ N = 3
    /\ registered[1].name = "inputRules"
    /\ AfterLoopAt(1) # {}
    /\ Len(Visited(1)) = 3
    /\ PluginRules = <<[of |-> "heading", n |-> 1]>>
    /\ state = "Initializing"

----------------------------------------------------------------------------
(* C13 *)

\* how often requester a's forEachExtension has been called for extension b
VisitCount(a, b) ==
    Len(SelectSeq(hookLog, LAMBDA entry :
            entry.hook = "forEachExtension" /\ entry.by = a /\ entry.ext = b))

\* C13: an aggregator's forEachExtension is called at most once per
\* registered extension, and by the end of the loop exactly once for each,
\* the aggregator itself included; the visit of itself invokes neither
\* getParameter nor createNodeViews, adds no rule and raises no error.
C13_VisitsEveryExtensionItselfIncluded ==
    \A a \in Aggregators :
        /\ \A b \in 1..N : VisitCount(a, b) <= 1
        /\ AfterLoopAt(a) # {} => \A b \in 1..N : VisitCount(a, b) = 1
        /\ \A k \in 1..Len(hookLog) :
              hookLog[k].hook \in {"getParameter", "createNodeViews"}
                  => hookLog[k].ext # a
        /\ \A q \in 1..Len(rules) : rules[q].of # registered[a].name
        /\ error.type = "InitializationError" => error.visited # registered[a].name

\* the aggregator has visited itself between two contributing extensions
C13_Witness ==
    /\ N = 3
    /\ registered[2].name = "inputRules"
    /\ Visited(2) = <<1, 2, 3>>
    /\ Len(rules) = 3
    /\ error = NoError

----------------------------------------------------------------------------
(* C14 *)

HarvestHooks == {"getParameter", "createNodeViews"}

\* no getParameter or createNodeViews entry at position k of the log
NoHarvestCallAt(k) == k > Len(hookLog) \/ hookLog[k].hook \notin HarvestHooks

\* C14: a visit of a non-skipped extension is followed by exactly one
\* getParameter call for that extension and then one createNodeViews call on
\* it, which receives the parameter object getParameter made for it and the
\* extension itself; a visit of a skipped extension is followed by neither;
\* and neither is ever called outside a visit.
C14_ParameterThenHook ==
    \A k \in 1..Len(hookLog) :
        /\ hookLog[k].hook = "forEachExtension" =>
              IF Skipped(registered[hookLog[k].ext])
              THEN NoHarvestCallAt(k + 1)
              ELSE /\ Len(hookLog) >= k + 2
                   /\ hookLog[k + 1].hook = "getParameter"
                   /\ hookLog[k + 1].ext = hookLog[k].ext
                   /\ hookLog[k + 1].parameter.for = registered[hookLog[k].ext].name
                   /\ hookLog[k + 2].hook = "createNodeViews"
                   /\ hookLog[k + 2].ext = hookLog[k].ext
                   /\ hookLog[k + 2].parameter = hookLog[k + 1].parameter
                   /\ NoHarvestCallAt(k + 3)
        /\ hookLog[k].hook = "getParameter" =>
              k > 1 /\ hookLog[k - 1].hook = "forEachExtension"
        /\ hookLog[k].hook = "createNodeViews" =>
              k > 1 /\ hookLog[k - 1].hook = "getParameter"

\* a loop that harvested one extension and skipped, for its own exclude
\* setting, another that implements the hook
C14_Witness ==
    /\ Len(Calls(hookLog, "getParameter")) = 1
    /\ Len(Calls(hookLog, "createNodeViews")) = 1
    /\ \E k \in 1..Len(hookLog) :
          /\ hookLog[k].hook = "forEachExtension"
          /\ ExtensionExcludesInputRules(registered[hookLog[k].ext])
          /\ ImplementsCreateNodeViews(registered[hookLog[k].ext])
    /\ \E a \in Aggregators : AfterLoopAt(a) # {}


----------------------------------------------------------------------------
(* C15 *)

ShowsActive(button) == button.state \in {"active-default", "active-inverse"}

RenderedButtons == Range(menuBar) \cup Range(bubbleMenu.buttons)

\* C15: every command button rendered by MenuBar and by BubbleMenu, the link
\* button of both included, is disabled exactly when the command's isEnabled()
\* is false and shows an active state exactly when its isActive(attrs) is true.
C15_ButtonsReflectCommands ==
    \A button \in RenderedButtons :
        /\ button.disabled <=> ~ isEnabled(editorDisabled, button.command)
        /\ ShowsActive(button) <=> isActive(editorActive, button.command, button.attrs)

\* the BubbleMenu shows its buttons while updateLink is not enabled, and its
\* link button is not disabled
C15_Witness ==
    /\ ~ isEnabled(editorDisabled, "updateLink")
    /\ \E button \in Range(bubbleMenu.buttons) :
          button.command = "updateLink" /\ ~ button.disabled

----------------------------------------------------------------------------
(* C16 *)

CountCalls(made, fn) == Cardinality({k \in 1..Len(made) : made[k].fn = fn})

Closes == linkInput.mounted /\ ~ linkInput'.mounted

LinkInputStep ==
    /\ Closes => CountCalls(calls', "deactivateLink") = 1
    /\ lastEvent' = "enter" =>
          calls' = <<Call("updateLink", linkInput.href), Call("deactivateLink", "")>>
    /\ lastEvent' = "remove" =>
          /\ calls' = <<Call("removeLink", ""), Call("deactivateLink", "")>>
          /\ canRemove(editorActive)
    /\ lastEvent' = "esc" => calls' = <<Call("deactivateLink", "")>>

\* C16: in LinkInput every closing action calls deactivateLink exactly once;
\* Enter calls updateLink(current href) then deactivateLink, the remove button
\* calls removeLink then deactivateLink, Escape calls deactivateLink only; the
\* remove button is offered only while canRemove() is true.
C16_ClosingActions ==
    /\ [](bubbleMenu.canRemove => (linkInput.mounted /\ canRemove(editorActive)))
    /\ [][LinkInputStep]_vars

\* Enter closed the input after a URL was typed
C16_Witness ==
    /\ lastEvent = "enter"
    /\ ~ linkInput.mounted
    /\ calls = <<Call("updateLink", "https://a.example"), Call("deactivateLink", "")>>

----------------------------------------------------------------------------
(* C17 *)

MousedownStep ==
    /\ (lastEvent' = "mousedown-outside" /\ linkInput.mounted
            /\ linkInput.wrapperRef # "null") =>
          (calls' = <<Call("deactivateLink", "")>> /\ ~ linkInput'.mounted)
    /\ (lastEvent' = "mousedown-inside"
            \/ (lastEvent' = "mousedown-outside" /\ linkInput.wrapperRef = "null")) =>
          (CountCalls(calls', "deactivateLink") = 0
             /\ linkInput'.mounted = linkInput.mounted)

\* C17: while LinkInput is mounted exactly one document mousedown listener is
\* registered, whatever the re-renders, and none remains after unmount; a
\* mousedown outside the wrapper calls deactivateLink, one inside it, or with
\* the wrapper ref unset, never does.
C17_OneMousedownListener ==
    /\ [](IF linkInput.mounted
          THEN listeners = {linkInput.handleClick} /\ Cardinality(listeners) = 1
          ELSE listeners = {})
    /\ [][MousedownStep]_vars

\* LinkInput rendered again, and a mousedown inside its wrapper left it open
C17_Witness ==
    /\ linkInput.mounted
    /\ linkInput.wrapperRef = "wrapper"
    /\ linkInput.handleClick > 1
    /\ listeners = {linkInput.handleClick}
    /\ lastEvent = "mousedown-inside"

----------------------------------------------------------------------------
(* C18 *)

CodeBlockActive == isActive(editorActive, "toggleCodeBlock", "undefined")

\* C18: the bubble menu's positioner is active exactly when (the default
\* bubble positioner is active or linkActivated) and toggleCodeBlock.isActive()
\* is false; it is never active while the code-block command is active.
C18_NeverActiveInCodeBlock ==
    bubbleMenu.content # "none" =>
        /\ bubbleMenu.isActive <=> ((selectionActive \/ linkActivated) /\ ~ CodeBlockActive)
        /\ CodeBlockActive => ~ bubbleMenu.isActive

\* the link is activated and text is selected inside a code block
C18_Witness ==
    /\ linkActivated
    /\ selectionActive
    /\ CodeBlockActive
    /\ bubbleMenu.content = "LinkInput"
    /\ ~ bubbleMenu.isActive

====
